---- MODULE Spec2Model ----
(***************************************************************************)
(* A model of pyke/kepfold.py: kepfold(), the phase-folding of a light     *)
(* curve on a linear ephemeris.  One behaviour is one call of kepfold():   *)
(* the arguments and the input table are drawn in Init, and the actions    *)
(* are the stages of the function in source order.                        *)
(*                                                                         *)
(* Numbers.  Times, epochs and periods are whole days.  A phase is an      *)
(* integer count of 1/PhaseDen.  float64 arithmetic is taken as exact on   *)
(* that scale; float32 is the coarser grid of multiples of Ulp32, and a    *)
(* conversion to float32 rounds to the nearest grid point (ties to even),  *)
(* as numpy does.  NaN is one reserved integer.                            *)
(***************************************************************************)
EXTENDS Integers, Sequences, FiniteSets

VARIABLES
    inp,      \* the arguments of kepfold() and the table of the input file
    pc,       \* the stage about to run; "done" and "failed" are final
    err,      \* the exception that ended the call, "" if none
    bjd0,     \* the local bjd0, normalised at line 271
    flt,      \* barytime, sap, saperr, ... after lines 260-267
    phase1,   \* the phase of every input row (float64)
    phase2,   \* the phase of every filtered sample (float32)
    srt,      \* phase3, sap3, saperr3, ... after lines 299-307
    work,     \* work1..work8 of the binning loop, as indices into the sorted arrays
    nb,       \* the current bin of the binning loop
    i,        \* the position of the binning loop in rng
    binned,   \* the bins flushed so far, in the order of phase4, sap4, ...
    outfile,  \* what instr.writeto(outfile) has written
    ptime1,   \* the wrapped unbinned series: phases
    pout1,    \* the wrapped unbinned series: values
    ptime2,   \* the wrapped binned series: phases
    pout2     \* the wrapped binned series: values

vars == <<inp, pc, err, bjd0, flt, phase1, phase2, srt, work, nb, i, binned,
          outfile, ptime1, pout1, ptime2, pout2>>

\* Longest input table.
MaxRows == 3

-----------------------------------------------------------------------------
\* Numbers

NaN == 0 - 1000

PhaseDen == 2 ^ 4

Ulp32 == 2 ^ 2

One == PhaseDen

Half == PhaseDen \div 2

IsFinite(x) == x # NaN

\* x / c for a channel value x (numpy: NaN / c is NaN)
Div(x, c) == IF x = NaN THEN NaN ELSE x \div c

\* IEEE comparison: false as soon as one side is NaN
Less(a, b) == a # NaN /\ b # NaN /\ a < b

\* np.array(x, 'float32') of a float64 x >= 0: nearest multiple of Ulp32,
\* ties to the even multiple
Float32(x) ==
    IF x = NaN THEN NaN
    ELSE LET lo == x \div Ulp32
             r  == x % Ulp32
         IN  IF 2 * r < Ulp32 THEN lo * Ulp32
             ELSE IF 2 * r > Ulp32 THEN (lo + 1) * Ulp32
             ELSE IF lo % 2 = 0 THEN lo * Ulp32 ELSE (lo + 1) * Ulp32

-----------------------------------------------------------------------------
\* Input tables

Channels == {"sap", "saperr", "pdc", "pdcerr", "cbv", "det", "deterr"}

\* Row j of a table: every channel value is a function of j, so that rows are
\* told apart in every channel; defect d spoils one field.
MkRow(j, t, d) ==
    [time    |-> IF d = "timenan" THEN NaN ELSE t,
     sap     |-> IF d = "sapnan" THEN NaN ELSE 64 * j,
     saperr  |-> IF d = "saperrzero" THEN 0 ELSE 4 * j,
     pdc     |-> IF d = "pdcnan" THEN NaN ELSE 64 * j + 16,
     pdcerr  |-> IF d = "pdcerrneg" THEN 0 - 4 ELSE 4 * j + 16,
     cbv     |-> 64 * j + 32,
     det     |-> IF d = "detzero" THEN 0 ELSE 64 * j + 48,
     deterr  |-> 4 * j + 32,
     quality |-> IF d = "qual" THEN 1 ELSE 0]

Defects == {"ok", "sapnan", "saperrzero", "pdcnan", "pdcerrneg", "detzero", "qual"}

TimesFold == {2, 3, 11, 15, 19}

\* Tables of the folding family: sound rows and rows without a time stamp, the
\* time stamps pairwise distinct.
FoldTables ==
    UNION { { [j \in 1..n |-> MkRow(j, ts[j], IF ts[j] = NaN THEN "timenan" ELSE "ok")] :
                ts \in { f \in [1..n -> TimesFold \cup {NaN}] :
                           \A a, b \in 1..n : (a # b /\ f[a] # NaN) => f[a] # f[b] } }
            : n \in 0..MaxRows }

\* Tables of the filtering family: every kind of invalid row, time stamps 3j.
\* The filter takes each row by itself, so these tables are one row shorter.
FilterTables ==
    UNION { { [j \in 1..n |-> MkRow(j, 3 * j, ds[j])] : ds \in [1..n -> Defects] }
            : n \in 0..(MaxRows - 1) }

\* <<period, bjdref, bjd0>>: bjd0 = 3 is normalised to 27, bjd0 = 28 is not
Ephemerides == {<<16, 24, 3>>, <<16, 24, 28>>, <<0, 24, 3>>, <<0 - 16, 24, 28>>}

NBins == {1, 2, 4}

\* <<bindata, binmethod>>
BinOpts == {<<FALSE, "median">>, <<TRUE, "median">>, <<TRUE, "sigclip">>}

\* <<rejqual, cadenom>>
FilterOpts == {<<FALSE, 2>>, <<TRUE, 1>>}

FoldInputs ==
    { [table |-> t, period |-> e[1], bjdref |-> e[2], bjd0 |-> e[3], nbins |-> n,
       bindata |-> b[1], binmethod |-> b[2], rejqual |-> FALSE, plottype |-> "sap",
       cadenom |-> 2, missing |-> "none"] :
      t \in FoldTables, e \in Ephemerides, n \in NBins, b \in BinOpts }

FilterInputs ==
    { [table |-> t, period |-> 16, bjdref |-> 24, bjd0 |-> 3, nbins |-> 2,
       bindata |-> FALSE, binmethod |-> "mean", rejqual |-> o[1], plottype |-> pt,
       cadenom |-> o[2], missing |-> "none"] :
      t \in FilterTables, o \in FilterOpts, pt \in {"sap", "pdc", "cbv", "det"} }

\* Files that lack the CBVSAP_FLUX or the DETSAP_FLUX columns.
MissingInputs ==
    { [table |-> [j \in 1..2 |-> MkRow(j, 3 * j, "ok")], period |-> 16, bjdref |-> 24,
       bjd0 |-> 3, nbins |-> 2, bindata |-> b, binmethod |-> "mean", rejqual |-> FALSE,
       plottype |-> pt, cadenom |-> 1, missing |-> m] :
      b \in BOOLEAN, pt \in {"sap", "cbv", "det"}, m \in {"cbv", "det"} }

Inputs == FoldInputs \cup FilterInputs \cup MissingInputs


-----------------------------------------------------------------------------
\* Lines 160-220: the columns of the input table

Zeros(n) == [k \in 1..n |-> 0]

Column(in, c) ==
    IF \/ (in.missing = "cbv" /\ c = "cbv")
       \/ (in.missing = "det" /\ c \in {"det", "deterr"})
    THEN Zeros(Len(in.table))
    ELSE [k \in 1..Len(in.table) |-> in.table[k][c]]

\* How the loading ends.  A missing CBVSAP_FLUX asked for by plottype raises
\* NameError (txt is not bound at line 195).  A missing DETSAP_FLUX asked for
\* calls kepmsg.err, which is outside this file: it raises or it returns.
LoadOutcomes(in) ==
    IF in.missing = "cbv" /\ in.plottype = "cbv" THEN {"NameError: txt"}
    ELSE IF in.missing = "det" /\ in.plottype = "det" THEN {"kepmsg.err", ""}
    ELSE {""}

-----------------------------------------------------------------------------
\* Lines 223-267: filter out NaNs and quality > 0

DataCol(in) ==
    IF in.plottype = "det" THEN Column(in, "det")
    ELSE IF in.plottype = "cbv" THEN Column(in, "cbv")
    ELSE IF in.plottype = "pdc" THEN Column(in, "pdc")
    ELSE Column(in, "sap")

ErrCol(in) ==
    IF in.plottype = "det" THEN Column(in, "deterr")
    ELSE IF in.plottype = "cbv" THEN Column(in, "saperr")
    ELSE IF in.plottype = "pdc" THEN Column(in, "pdcerr")
    ELSE Column(in, "saperr")

\* Retain, were the validity read from the SAP channel whatever plottype says
RetainBySap(in, k) ==
    /\ IsFinite(Column(in, "time")[k])
    /\ IsFinite(Column(in, "sap")[k])
    /\ Column(in, "sap")[k] # 0
    /\ IsFinite(Column(in, "saperr")[k])
    /\ Column(in, "saperr")[k] > 0
    /\ \/ in.rejqual /\ Column(in, "quality")[k] = 0
       \/ ~in.rejqual

\* lines 239-242 and 251: is row k appended to the work lists ?
Retain(in, k) ==
    /\ IsFinite(Column(in, "time")[k])
    /\ IsFinite(DataCol(in)[k])
    /\ DataCol(in)[k] # 0
    /\ IsFinite(ErrCol(in)[k])
    /\ ErrCol(in)[k] > 0
    /\ \/ in.rejqual /\ Column(in, "quality")[k] = 0
       \/ ~in.rejqual

EmptyWork ==
    [barytime |-> <<>>, sap |-> <<>>, saperr |-> <<>>, pdc |-> <<>>, pdcerr |-> <<>>,
     cbv |-> <<>>, det |-> <<>>, deterr |-> <<>>]

\* AppendRow, were work8 filled from the first row
AppendRowMisaligned(w, in, k) ==
    [barytime |-> Append(w.barytime, Column(in, "time")[k]),
     sap      |-> Append(w.sap, Column(in, "sap")[k]),
     saperr   |-> Append(w.saperr, Column(in, "saperr")[k]),
     pdc      |-> Append(w.pdc, Column(in, "pdc")[k]),
     pdcerr   |-> Append(w.pdcerr, Column(in, "pdcerr")[k]),
     cbv      |-> Append(w.cbv, Column(in, "cbv")[k]),
     det      |-> Append(w.det, Column(in, "det")[1]),
     deterr   |-> Append(w.deterr, Column(in, "deterr")[k])]

\* lines 243-250 (and 252-259): work1 .. work9 take row k
AppendRow(w, in, k) ==
    [barytime |-> Append(w.barytime, Column(in, "time")[k]),
     sap      |-> Append(w.sap, Column(in, "sap")[k]),
     saperr   |-> Append(w.saperr, Column(in, "saperr")[k]),
     pdc      |-> Append(w.pdc, Column(in, "pdc")[k]),
     pdcerr   |-> Append(w.pdcerr, Column(in, "pdcerr")[k]),
     cbv      |-> Append(w.cbv, Column(in, "cbv")[k]),
     det      |-> Append(w.det, Column(in, "det")[k]),
     deterr   |-> Append(w.deterr, Column(in, "deterr")[k])]

RECURSIVE FilterLoop(_, _, _)
FilterLoop(in, k, w) ==
    IF k > Len(in.table) THEN w
    ELSE FilterLoop(in, k + 1, IF Retain(in, k) THEN AppendRow(w, in, k) ELSE w)

\* lines 260-267
ToArrays(w, cadenom) ==
    [barytime |-> w.barytime,
     sap      |-> [k \in 1..Len(w.sap) |-> Div(w.sap[k], cadenom)],
     saperr   |-> [k \in 1..Len(w.saperr) |-> Div(w.saperr[k], cadenom)],
     pdc      |-> [k \in 1..Len(w.pdc) |-> Div(w.pdc[k], cadenom)],
     pdcerr   |-> [k \in 1..Len(w.pdcerr) |-> Div(w.pdcerr[k], cadenom)],
     cbv      |-> [k \in 1..Len(w.cbv) |-> Div(w.cbv[k], cadenom)],
     det      |-> [k \in 1..Len(w.det) |-> Div(w.det[k], cadenom)],
     deterr   |-> [k \in 1..Len(w.deterr) |-> Div(w.deterr[k], cadenom)]]

-----------------------------------------------------------------------------
\* Lines 269-276: calculate phase

\* lines 270-271
NormEpoch(in) == IF in.bjd0 < in.bjdref THEN in.bjd0 + in.bjdref ELSE in.bjd0

\* (date / period) - np.floor(date / period), in units of 1/PhaseDen.
\* A division by zero gives an infinity, and inf - inf is NaN.
Frac(date, period) ==
    IF date = NaN \/ period = 0 THEN NaN
    ELSE IF period > 0 THEN ((date % period) * PhaseDen) \div period
    ELSE (((0 - date) % (0 - period)) * PhaseDen) \div (0 - period)

\* lines 272-275 for one time stamp
PhaseOf(t, bjdref, epoch, period) ==
    IF t = NaN THEN NaN ELSE Frac(t + bjdref - epoch, period)

\* Phase1, were line 272 to use the epoch as given
Phase1RawEpoch(in, epoch) ==
    [k \in 1..Len(in.table) |->
        PhaseOf(Column(in, "time")[k], in.bjdref, in.bjd0, in.period)]

\* lines 272-273: the phase of every row of the table (barytime1)
Phase1(in, epoch) ==
    [k \in 1..Len(in.table) |->
        PhaseOf(Column(in, "time")[k], in.bjdref, epoch, in.period)]

\* lines 274-276: the phase of every filtered sample, as float32
Phase2(in, f, epoch) ==
    [k \in 1..Len(f.barytime) |->
        Float32(PhaseOf(f.barytime[k], in.bjdref, epoch, in.period))]

-----------------------------------------------------------------------------
\* Lines 278-307: sort phases

\* lines 285-287: cbverr is saperr
PTuple(f, ph, k) ==
    [phase |-> ph[k], sap |-> f.sap[k], saperr |-> f.saperr[k], pdc |-> f.pdc[k],
     pdcerr |-> f.pdcerr[k], cbv |-> f.cbv[k], cbverr |-> f.saperr[k],
     det |-> f.det[k], deterr |-> f.deterr[k]]

\* InsertSorted, were x to go in front of the tuples of equal key
RECURSIVE InsertInFront(_, _)
InsertInFront(s, x) ==
    IF s = <<>> THEN <<x>>
    ELSE IF ~Less(s[Len(s)].phase, x.phase)
         THEN Append(InsertInFront(SubSeq(s, 1, Len(s) - 1), x), s[Len(s)])
         ELSE Append(s, x)

\* sorted() is stable: x goes behind every tuple whose key is not greater
RECURSIVE InsertSorted(_, _)
InsertSorted(s, x) ==
    IF s = <<>> THEN <<x>>
    ELSE IF Less(x.phase, s[Len(s)].phase)
         THEN Append(InsertSorted(SubSeq(s, 1, Len(s) - 1), x), s[Len(s)])
         ELSE Append(s, x)

RECURSIVE Sorted(_)
Sorted(s) ==
    IF s = <<>> THEN <<>>
    ELSE InsertSorted(Sorted(SubSeq(s, 1, Len(s) - 1)), s[Len(s)])

\* lines 289-307
Unzip(s) ==
    [phase3 |-> [k \in 1..Len(s) |-> s[k].phase],
     sap3 |-> [k \in 1..Len(s) |-> s[k].sap],
     saperr3 |-> [k \in 1..Len(s) |-> s[k].saperr],
     pdc3 |-> [k \in 1..Len(s) |-> s[k].pdc],
     pdcerr3 |-> [k \in 1..Len(s) |-> s[k].pdcerr],
     cbv3 |-> [k \in 1..Len(s) |-> s[k].cbv],
     cbverr3 |-> [k \in 1..Len(s) |-> s[k].cbverr],
     det3 |-> [k \in 1..Len(s) |-> s[k].det],
     deterr3 |-> [k \in 1..Len(s) |-> s[k].deterr]]

NoArrays ==
    [phase3 |-> <<>>, sap3 |-> <<>>, saperr3 |-> <<>>, pdc3 |-> <<>>, pdcerr3 |-> <<>>,
     cbv3 |-> <<>>, cbverr3 |-> <<>>, det3 |-> <<>>, deterr3 |-> <<>>]

-----------------------------------------------------------------------------
\* Lines 309-403: bin phases

\* line 330: np.append(phase3, phase3[0] + 1.0)
Rng(s) ==
    Append(s.phase3, IF s.phase3[1] = NaN THEN NaN ELSE s.phase3[1] + One)

\* line 332, with dt = 1.0 / nbins: rng[i] < nb * dt or rng[i] >= (nb + 1.0) * dt
OutsideBin(p, b, nbins) ==
    /\ p # NaN
    /\ \/ p * nbins < b * One
       \/ p * nbins >= (b + 1) * One

\* Centre, were the bin index advanced before the centre is taken
CentreOfNextBin(b, nbins) == ((2 * b + 3) * One) \div (2 * nbins)

\* line 334: (nb + 0.5) * dt
Centre(b, nbins) == ((2 * b + 1) * One) \div (2 * nbins)

\* lines 333-385: what a flush adds to phase4, sap4, ...; an empty buffer adds nothing
Flushed(bins, buf, b) ==
    IF Len(buf) > 0 THEN Append(bins, [nb |-> b, buf |-> buf]) ELSE bins

\* lines 353-359: any method but mean and median reaches kepfunc.poly0, and
\* kepfunc is not imported
FlushRaises(buf, method) == Len(buf) > 0 /\ method \notin {"mean", "median"}

\* the values that work1, work3, ... hold for channel c3 of the sorted arrays
BufValues(s, buf, c3) == [k \in 1..Len(buf) |-> s[c3][buf[k]]]

RECURSIVE SumFinite(_)
SumFinite(v) ==
    IF v = <<>> THEN 0
    ELSE (IF v[1] = NaN THEN 0 ELSE v[1]) + SumFinite(Tail(v))

Finite(v) == SelectSeq(v, IsFinite)

\* np.nanmean, to the whole unit below
NanMean(v) ==
    IF Finite(v) = <<>> THEN NaN ELSE SumFinite(v) \div Len(Finite(v))

RECURSIVE InsertNum(_, _)
InsertNum(s, x) ==
    IF s = <<>> THEN <<x>>
    ELSE IF x < s[Len(s)]
         THEN Append(InsertNum(SubSeq(s, 1, Len(s) - 1), x), s[Len(s)])
         ELSE Append(s, x)

RECURSIVE SortNum(_)
SortNum(s) ==
    IF s = <<>> THEN <<>>
    ELSE InsertNum(SortNum(SubSeq(s, 1, Len(s) - 1)), s[Len(s)])

\* np.nanmedian, to the whole unit below
NanMedian(v) ==
    LET f == SortNum(Finite(v))
        n == Len(f)
    IN  IF n = 0 THEN NaN
        ELSE IF n % 2 = 1 THEN f[(n + 1) \div 2]
        ELSE (f[n \div 2] + f[n \div 2 + 1]) \div 2

\* lines 336, 345: the value a bin takes for one channel
BinValue(s, bin, c3, method) ==
    IF method = "mean" THEN NanMean(BufValues(s, bin.buf, c3))
    ELSE NanMedian(BufValues(s, bin.buf, c3))

\* phase4
Phase4(bins, nbins) == [k \in 1..Len(bins) |-> Centre(bins[k].nb, nbins)]

\* binmethod as the caller may give it
Methods == {"mean", "median", "sigclip"}

\* the uncertainty channels of the sorted arrays: work2, work4, work6, work8
ErrChannels == {"saperr3", "pdcerr3", "cbverr3", "deterr3"}

\* lines 337-384: the arrays handed to kepstat.mean_err for one bin, which are
\* the whole buffers whatever the method
MeanErrArgs(s, bin) == [c \in ErrChannels |-> BufValues(s, bin.buf, c)]

RECURSIVE BinLoop(_, _, _, _, _, _, _)
\* lines 331-403 as a function of the sorted arrays, nbins and binmethod: the
\* loop from position k on, in bin b, with buffer buf and the bins flushed
\* so far
BinLoop(s, nbins, method, k, b, buf, bins) ==
    IF k > Len(Rng(s)) THEN [raised |-> FALSE, bins |-> bins]
    ELSE IF OutsideBin(Rng(s)[k], b, nbins)
         THEN IF FlushRaises(buf, method)
              THEN [raised |-> TRUE, bins |-> bins]
              ELSE BinLoop(s, nbins, method, k + 1, b + 1, <<>>, Flushed(bins, buf, b))
         ELSE IF k > Len(s.phase3)
              THEN [raised |-> TRUE, bins |-> bins]
              ELSE BinLoop(s, nbins, method, k + 1, b, Append(buf, k), bins)

\* lines 310-403: the bins that reach the output for binmethod = method; an
\* exception ends the call before anything is written or plotted
Emitted(s, nbins, method) ==
    LET r == BinLoop(s, nbins, method, 1, 0, <<1>>, <<>>)
    IN  IF r.raised THEN <<>> ELSE r.bins

-----------------------------------------------------------------------------
\* Lines 477-514: the series wrapped around phase 0 and 1

\* lines 482-487 and 499-504
PlotChannel(in) ==
    IF in.plottype = "det" THEN "det3"
    ELSE IF in.plottype = "cbv" THEN "cbv3"
    ELSE IF in.plottype = "pdc" THEN "pdc3"
    ELSE "sap3"

\* IsHigh, were the test phase >= 0.5
IsAtLeastHalf(p) == p # NaN /\ p >= Half

\* phase > 0.5
IsHigh(p) == Less(Half, p)

\* IsLow, were the test phase < 0.5
IsBelowHalf(p) == p # NaN /\ p < Half

\* phase <= 0.5
IsLow(p) == p # NaN /\ p <= Half

RECURSIVE HighCopies(_, _, _)
\* lines 488-491, 505-508: the loop from position k on
HighCopies(ph, v, k) ==
    IF k > Len(ph) THEN [t |-> <<>>, o |-> <<>>]
    ELSE LET rest == HighCopies(ph, v, k + 1)
         IN  IF IsHigh(ph[k])
             THEN [t |-> <<ph[k] - One>> \o rest.t, o |-> <<v[k]>> \o rest.o]
             ELSE rest

RECURSIVE LowCopies(_, _, _)
\* lines 494-497, 511-514: the loop from position k on
LowCopies(ph, v, k) ==
    IF k > Len(ph) THEN [t |-> <<>>, o |-> <<>>]
    ELSE LET rest == LowCopies(ph, v, k + 1)
         IN  IF IsLow(ph[k])
             THEN [t |-> <<ph[k] + One>> \o rest.t, o |-> <<v[k]>> \o rest.o]
             ELSE rest

\* lines 488-497, 505-514
Wrap(ph, v) ==
    [t |-> HighCopies(ph, v, 1).t \o ph \o LowCopies(ph, v, 1).t,
     o |-> HighCopies(ph, v, 1).o \o v \o LowCopies(ph, v, 1).o]

-----------------------------------------------------------------------------
\* The call

NoFile == [written |-> FALSE, phase |-> <<>>, folded |-> <<>>]

\* lines 423-437: one row of the FOLDED extension.  The four value columns
\* are sap4, pdc4, cbv4, det4 divided by cadenom; the uncertainty columns are
\* the results of kepstat.mean_err divided by cadenom in the same way.
FoldedRow(s, bin, in) ==
    [PHASE    |-> Centre(bin.nb, in.nbins),
     SAP_FLUX |-> Div(BinValue(s, bin, "sap3", in.binmethod), in.cadenom),
     PDC_FLUX |-> Div(BinValue(s, bin, "pdc3", in.binmethod), in.cadenom),
     CBV_FLUX |-> Div(BinValue(s, bin, "cbv3", in.binmethod), in.cadenom),
     DET_FLUX |-> Div(BinValue(s, bin, "det3", in.binmethod), in.cadenom)]

Init ==
    /\ inp \in Inputs
    /\ pc = "load"
    /\ err = ""
    /\ bjd0 = inp.bjd0
    /\ flt = EmptyWork
    /\ phase1 = <<>>
    /\ phase2 = <<>>
    /\ srt = NoArrays
    /\ work = <<>>
    /\ nb = 0
    /\ i = 0
    /\ binned = <<>>
    /\ outfile = NoFile
    /\ ptime1 = <<>>
    /\ pout1 = <<>>
    /\ ptime2 = <<>>
    /\ pout2 = <<>>

\* lines 160-220
LoadColumns ==
    /\ pc = "load"
    /\ \E e \in LoadOutcomes(inp) :
          /\ err' = e
          /\ pc' = IF e = "" THEN "filter" ELSE "failed"
    /\ UNCHANGED <<inp, bjd0, flt, phase1, phase2, srt, work, nb, i, binned,
                   outfile, ptime1, pout1, ptime2, pout2>>

\* lines 223-267
FilterRows ==
    /\ pc = "filter"
    /\ flt' = ToArrays(FilterLoop(inp, 1, EmptyWork), inp.cadenom)
    /\ pc' = "phase"
    /\ UNCHANGED <<inp, err, bjd0, phase1, phase2, srt, work, nb, i, binned,
                   outfile, ptime1, pout1, ptime2, pout2>>

\* lines 269-276
CalcPhase ==
    /\ pc = "phase"
    /\ bjd0' = NormEpoch(inp)
    /\ phase1' = Phase1(inp, bjd0')
    /\ phase2' = Phase2(inp, flt, bjd0')
    /\ pc' = "sort"
    /\ UNCHANGED <<inp, err, flt, srt, work, nb, i, binned,
                   outfile, ptime1, pout1, ptime2, pout2>>

\* lines 278-307
SortPhases ==
    /\ pc = "sort"
    /\ srt' = Unzip(Sorted([k \in 1..Len(phase2) |-> PTuple(flt, phase2, k)]))
    /\ pc' = IF inp.bindata THEN "bininit" ELSE "write"
    /\ UNCHANGED <<inp, err, bjd0, flt, phase1, phase2, work, nb, i, binned,
                   outfile, ptime1, pout1, ptime2, pout2>>

\* lines 310-330; sap3[0] of an empty array raises IndexError
BinInit ==
    /\ pc = "bininit"
    /\ IF Len(srt.phase3) = 0
       THEN /\ pc' = "failed"
            /\ err' = "IndexError: sap3[0]"
            /\ UNCHANGED <<work, nb, i>>
       ELSE /\ work' = <<1>>
            /\ nb' = 0
            /\ i' = 1
            /\ pc' = "bin"
            /\ err' = err
    /\ UNCHANGED <<inp, bjd0, flt, phase1, phase2, srt, binned,
                   outfile, ptime1, pout1, ptime2, pout2>>

\* lines 331-403: one turn of the loop over rng; sap3[i] at the position of the
\* wrap point raises IndexError
BinStep ==
    /\ pc = "bin"
    /\ IF OutsideBin(Rng(srt)[i], nb, inp.nbins)
       THEN IF FlushRaises(work, inp.binmethod)
            THEN /\ pc' = "failed"
                 /\ err' = "NameError: kepfunc"
                 /\ UNCHANGED <<work, nb, i, binned>>
            ELSE /\ binned' = Flushed(binned, work, nb)
                 /\ work' = <<>>
                 /\ nb' = nb + 1
                 /\ i' = i + 1
                 /\ pc' = IF i = Len(Rng(srt)) THEN "write" ELSE "bin"
                 /\ err' = err
       ELSE IF i > Len(srt.phase3)
            THEN /\ pc' = "failed"
                 /\ err' = "IndexError: sap3[i]"
                 /\ UNCHANGED <<work, nb, i, binned>>
            ELSE /\ work' = Append(work, i)
                 /\ i' = i + 1
                 /\ pc' = "bin"
                 /\ err' = err
                 /\ UNCHANGED <<nb, binned>>
    /\ UNCHANGED <<inp, bjd0, flt, phase1, phase2, srt,
                   outfile, ptime1, pout1, ptime2, pout2>>

\* lines 405-475: the PHASE column is of format E, the FOLDED extension exists
\* when binning was asked for
WriteOutput ==
    /\ pc = "write"
    /\ outfile' = [written |-> TRUE,
                   phase   |-> [k \in 1..Len(phase1) |-> Float32(phase1[k])],
                   folded  |-> IF inp.bindata
                               THEN [k \in 1..Len(binned) |-> FoldedRow(srt, binned[k], inp)]
                               ELSE <<>>]
    /\ pc' = "wrap"
    /\ UNCHANGED <<inp, err, bjd0, flt, phase1, phase2, srt, work, nb, i, binned,
                   ptime1, pout1, ptime2, pout2>>

\* lines 477-514
WrapAround ==
    /\ pc = "wrap"
    /\ LET w4 == [k \in 1..Len(binned) |->
                    BinValue(srt, binned[k], PlotChannel(inp), inp.binmethod)]
           b  == Wrap(Phase4(binned, inp.nbins), w4)
           u  == Wrap(srt.phase3, srt[PlotChannel(inp)])
       IN  /\ ptime2' = IF inp.bindata THEN b.t ELSE <<>>
           /\ pout2' = IF inp.bindata THEN b.o ELSE <<>>
           /\ ptime1' = u.t
           /\ pout1' = u.o
    /\ pc' = "axes"
    /\ UNCHANGED <<inp, err, bjd0, flt, phase1, phase2, srt, work, nb, i, binned,
                   outfile>>

\* lines 517-543: max() of an empty array raises ValueError; the rescaled and
\* padded arrays are handed to the plot only
PlotAxes ==
    /\ pc = "axes"
    /\ IF Finite(pout1) = <<>>
       THEN pc' = "failed" /\ err' = "ValueError: max"
       ELSE pc' = "done" /\ err' = err
    /\ UNCHANGED <<inp, bjd0, flt, phase1, phase2, srt, work, nb, i, binned,
                   outfile, ptime1, pout1, ptime2, pout2>>

Next ==
    \/ LoadColumns
    \/ FilterRows
    \/ CalcPhase
    \/ SortPhases
    \/ BinInit
    \/ BinStep
    \/ WriteOutput
    \/ WrapAround
    \/ PlotAxes

Spec == Init /\ [][Next]_vars

-----------------------------------------------------------------------------
\* Stages of a call, for the properties below

LoadFailed == err \in {"NameError: txt", "kepmsg.err"}

AfterFilter == pc \notin {"load", "filter"} /\ ~LoadFailed

AfterPhase == AfterFilter /\ pc # "phase"

AfterSort == AfterPhase /\ pc # "sort"

\* the binning loop has run to its end
BinningDone == inp.bindata /\ pc \in {"write", "wrap", "axes", "done"}

AfterWrap == pc \in {"axes", "done"} \/ (pc = "failed" /\ err = "ValueError: max")

NSorted == Len(srt.phase3)

\* the period is valid and every sorted phase is a number of [0, 1)
PhasesInUnit == inp.period > 0 /\ \A k \in 1..NSorted :
    srt.phase3[k] # NaN /\ 0 <= srt.phase3[k] /\ srt.phase3[k] < One

\* phase p lies in [k / nbins, (k + 1) / nbins)
InInterval(p, k) == k * One <= p * inp.nbins /\ p * inp.nbins < (k + 1) * One

\* the places <<bin, position>> of the emitted buffers that hold sorted sample k
PlacesOf(k) ==
    { bj \in UNION { {<<b, j>> : j \in 1..Len(binned[b].buf)} : b \in 1..Len(binned) } :
        binned[bj[1]].buf[bj[2]] = k }

RECURSIVE SumLen(_)
SumLen(bins) == IF bins = <<>> THEN 0 ELSE Len(bins[1].buf) + SumLen(Tail(bins))

-----------------------------------------------------------------------------
\* C1: when binning is requested and the sorted phases lie in [0,1), every
\* retained sample is accumulated exactly once, into the bin whose interval
\* [k/nbins, (k+1)/nbins) contains its phase, so the per-bin counts sum to the
\* number of filtered samples.
C1_EverySampleOnceInItsBin ==
    (BinningDone /\ PhasesInUnit) =>
        /\ \A k \in 1..NSorted :
              /\ Cardinality(PlacesOf(k)) = 1
              /\ \A bj \in PlacesOf(k) : InInterval(srt.phase3[k], binned[bj[1]].nb)
        /\ SumLen(binned) = NSorted

\* C2: when binning is requested and the sorted phases lie in [0,1), a bin of
\* index k is emitted if and only if some retained sample has its phase in
\* [k/nbins, (k+1)/nbins), and then exactly once.
C2_BinIffIntervalNonEmpty ==
    (BinningDone /\ PhasesInUnit) =>
        /\ \A b \in 1..Len(binned) :
              \E k \in 1..NSorted : InInterval(srt.phase3[k], binned[b].nb)
        /\ \A n \in 0..(inp.nbins - 1) :
              (\E k \in 1..NSorted : InInterval(srt.phase3[k], n)) =>
                  Cardinality({b \in 1..Len(binned) : binned[b].nb = n}) = 1


-----------------------------------------------------------------------------
\* Rows and samples told apart

Rows == 1..Len(inp.table)

\* row k of the table has its time stamp in the filtered barytime
Retained(k) == \E j \in 1..Len(flt.barytime) : flt.barytime[j] = inp.table[k].time

\* the row that filtered sample j was taken from (time stamps are distinct)
RowOf(j) == CHOOSE k \in Rows : inp.table[k].time = flt.barytime[j]

\* the condition of the filter, as the specification words it
ValidRow(k) ==
    /\ Column(inp, "time")[k] # NaN
    /\ DataCol(inp)[k] # NaN
    /\ DataCol(inp)[k] # 0
    /\ ErrCol(inp)[k] # NaN
    /\ ErrCol(inp)[k] > 0
    /\ (inp.rejqual => Column(inp, "quality")[k] = 0)

\* C3: the filter retains row k if and only if its time is finite, the value
\* of the selected channel is finite and not zero, the uncertainty of the
\* selected channel is finite and positive and, with rejqual, its quality is 0;
\* the other channels play no part.
C3_RetainedIffValid == AfterFilter => \A k \in Rows : Retained(k) <=> ValidRow(k)

\* a row with NaN in a channel that is not selected is kept, and a row with NaN
\* in the selected channel is dropped
C3_Witness ==
    /\ AfterFilter
    /\ inp.plottype = "pdc"
    /\ \E k \in Rows : inp.table[k].sap = NaN /\ Retained(k)
    /\ \E k \in Rows : inp.table[k].pdc = NaN /\ Column(inp, "time")[k] # NaN /\ ~Retained(k)

\* C4: a call that fails has written no output file; stated for the calls of
\* valid period, where no sample surviving the filter is among the failures.
C4_FailedWritesNothing == (pc = "failed" /\ inp.period > 0) => ~outfile.written

\* C5: with period <= 0 the call fails before any phase is computed and
\* before any output is produced.
C5_NonPositivePeriodRejected ==
    inp.period <= 0 =>
        /\ phase1 = <<>>
        /\ phase2 = <<>>
        /\ ~outfile.written
        /\ pc \in {"load", "filter", "phase", "failed"}

\* C6: with period > 0, the phase of every finite time stamp lies in [0, 1),
\* in the full-length column and among the filtered phases alike.
C6_PhaseInUnitInterval ==
    (AfterPhase /\ inp.period > 0) =>
        /\ \A k \in Rows :
              Column(inp, "time")[k] # NaN => (0 <= phase1[k] /\ phase1[k] < One)
        /\ \A j \in 1..Len(phase2) : 0 <= phase2[j] /\ phase2[j] < One

\* C7: the phase column has one entry per input row, dropped rows included,
\* and the phase that a retained sample is sorted and binned by is the entry of
\* that column at the row the sample came from.
C7_PhaseColumnAligned ==
    AfterPhase =>
        /\ Len(phase1) = Len(inp.table)
        /\ \A j \in 1..Len(phase2) : phase2[j] = Float32(phase1[RowOf(j)])
        /\ outfile.written =>
              /\ Len(outfile.phase) = Len(inp.table)
              /\ \A j \in 1..Len(phase2) : phase2[j] = outfile.phase[RowOf(j)]

\* the file is written, the epoch was normalised, a row was dropped and a later
\* row was kept
C7_Witness ==
    /\ outfile.written
    /\ inp.period > 0
    /\ bjd0 # inp.bjd0
    /\ \E k \in Rows : ~Retained(k) /\ \E m \in Rows : m > k /\ Retained(m)

\* the tuple at position k of the sorted arrays
SortedTuple(k) ==
    [phase |-> srt.phase3[k], sap |-> srt.sap3[k], saperr |-> srt.saperr3[k],
     pdc |-> srt.pdc3[k], pdcerr |-> srt.pdcerr3[k], cbv |-> srt.cbv3[k],
     cbverr |-> srt.cbverr3[k], det |-> srt.det3[k], deterr |-> srt.deterr3[k]]

\* the filtered sample that stands at position k of the sorted arrays
SampleAt(k) == CHOOSE j \in 1..Len(phase2) : PTuple(flt, phase2, j) = SortedTuple(k)

\* C8: the sorted arrays are a permutation of the retained samples, every
\* channel of a position coming from one sample; no phase is lower than an
\* earlier one, and samples of equal phase keep their source order.
C8_StableSortInLockStep ==
    AfterSort =>
        /\ \A c \in DOMAIN srt : Len(srt[c]) = Len(phase2)
        /\ \A k \in 1..NSorted : \E j \in 1..Len(phase2) : PTuple(flt, phase2, j) = SortedTuple(k)
        /\ \A j \in 1..Len(phase2) : \E k \in 1..NSorted : PTuple(flt, phase2, j) = SortedTuple(k)
        /\ \A a, b \in 1..NSorted :
              a < b => /\ ~Less(srt.phase3[b], srt.phase3[a])
                       /\ srt.phase3[a] = srt.phase3[b] => SampleAt(a) < SampleAt(b)

\* two samples of one phase, and a sample that moved in front of an earlier one
C8_Witness ==
    /\ AfterSort
    /\ inp.period > 0
    /\ \E a, b \in 1..NSorted : a < b /\ srt.phase3[a] = srt.phase3[b]
    /\ \E a, b \in 1..NSorted : a < b /\ SampleAt(a) > SampleAt(b)

\* C9: after the filter all arrays have one length, position j of every array
\* holds the data of one input row, divided by cadenom, and the rows keep
\* their order.
C9_FilteredArraysAligned ==
    AfterFilter =>
        /\ \A c \in Channels : Len(flt[c]) = Len(flt.barytime)
        /\ \A j \in 1..Len(flt.barytime) :
              \E k \in Rows :
                 /\ Column(inp, "time")[k] = flt.barytime[j]
                 /\ \A c \in Channels : flt[c][j] = Div(Column(inp, c)[k], inp.cadenom)
        /\ \A j1, j2 \in 1..Len(flt.barytime) : j1 < j2 => RowOf(j1) < RowOf(j2)

\* a row is dropped between two rows that are kept
C9_Witness ==
    /\ AfterFilter
    /\ inp.cadenom = 2
    /\ \E k \in Rows : /\ ~Retained(k)
                       /\ \E m \in Rows : m < k /\ Retained(m)
                       /\ \E m \in Rows : m > k /\ Retained(m)

Pairs(ph, v) == [k \in 1..Len(ph) |-> <<ph[k], v[k]>>]

Shifted(pairs, d) == [k \in 1..Len(pairs) |-> <<pairs[k][1] + d, pairs[k][2]>>]

AboveHalf(pr) == pr[1] # NaN /\ pr[1] > Half

UpToHalf(pr) == pr[1] # NaN /\ pr[1] <= Half

\* the copies moved down by one, the points themselves, the copies moved up by one
Expanded(ph, v) ==
    Shifted(SelectSeq(Pairs(ph, v), AboveHalf), 0 - One)
       \o Pairs(ph, v)
       \o Shifted(SelectSeq(Pairs(ph, v), UpToHalf), One)

\* sap4, pdc4, cbv4 or det4, as plottype selects
Work4 ==
    [k \in 1..Len(binned) |-> BinValue(srt, binned[k], PlotChannel(inp), inp.binmethod)]

AllNumbers(ph) == \A k \in 1..Len(ph) : ph[k] # NaN

\* C10: the wrapped series is the copies of the points of phase > 0.5 moved by
\* -1, then the points themselves, then the copies of the points of phase
\* <= 0.5 moved by +1, each group in input order and every value unchanged; a
\* series of N phases gives 2N points.  So for the unbinned series and, when
\* binning was asked for, for the binned one.
C10_WrapDuplicatesEveryPoint ==
    AfterWrap =>
        /\ Pairs(ptime1, pout1) = Expanded(srt.phase3, srt[PlotChannel(inp)])
        /\ Len(ptime1) = Len(pout1)
        /\ AllNumbers(srt.phase3) => Len(ptime1) = 2 * NSorted
        /\ inp.bindata =>
              /\ Pairs(ptime2, pout2) = Expanded(Phase4(binned, inp.nbins), Work4)
              /\ Len(ptime2) = 2 * Len(binned)

\* a series with a phase above 0.5, a phase below 0.5 and the phase 0.5 itself,
\* and a binned series of two bins
C10_Witness ==
    /\ pc = "done"
    /\ inp.bindata
    /\ Len(binned) >= 2
    /\ \E k \in 1..NSorted : srt.phase3[k] = Half
    /\ \E k \in 1..NSorted : srt.phase3[k] # NaN /\ srt.phase3[k] > Half
    /\ \E k \in 1..NSorted : srt.phase3[k] # NaN /\ srt.phase3[k] < Half

-----------------------------------------------------------------------------
\* every phase of ph is a number of the open interval (0, 1)
InOpenUnit(ph) == \A k \in 1..Len(ph) : ph[k] # NaN /\ 0 < ph[k] /\ ph[k] < One

\* C11 (as stated): when the phases of a series lie in (0,1), every phase of
\* its wrapped series lies in the half-open interval [-0.5, 1.5).
C11_WrappedPhasesHalfOpen ==
    AfterWrap =>
        /\ InOpenUnit(srt.phase3) =>
              \A k \in 1..Len(ptime1) : 0 - Half <= ptime1[k] /\ ptime1[k] < One + Half
        /\ (inp.bindata /\ InOpenUnit(Phase4(binned, inp.nbins))) =>
              \A k \in 1..Len(ptime2) : 0 - Half <= ptime2[k] /\ ptime2[k] < One + Half

\* C11 (amended): when the phases of a series lie in (0,1), every phase of its
\* wrapped series lies in (-0.5, 1.5]: a point at phase 0.5 is copied to
\* exactly 1.5 and nothing is copied to -0.5.
C11_WrappedPhasesInRange ==
    AfterWrap =>
        /\ InOpenUnit(srt.phase3) =>
              \A k \in 1..Len(ptime1) : 0 - Half < ptime1[k] /\ ptime1[k] <= One + Half
        /\ (inp.bindata /\ InOpenUnit(Phase4(binned, inp.nbins))) =>
              \A k \in 1..Len(ptime2) : 0 - Half < ptime2[k] /\ ptime2[k] <= One + Half

\* a wrapped series with a point at phase 0.5, its copy at 1.5 and a copy below 0
C11_Witness ==
    /\ AfterWrap
    /\ inp.period > 0
    /\ InOpenUnit(srt.phase3)
    /\ \E k \in 1..NSorted : srt.phase3[k] = Half
    /\ \E k \in 1..Len(ptime1) : ptime1[k] = One + Half
    /\ \E k \in 1..Len(ptime1) : ptime1[k] < 0
    /\ inp.bindata /\ ptime2 # <<>> /\ InOpenUnit(Phase4(binned, inp.nbins))

-----------------------------------------------------------------------------
\* the binning of a non-empty sorted series has ended, by its end or by an
\* exception
BinEnded ==
    /\ inp.bindata /\ AfterSort /\ NSorted > 0
    /\ pc \in {"write", "wrap", "axes", "done", "failed"}

\* the bins this call hands on
RunEmitted ==
    IF pc = "failed" /\ err \in {"NameError: kepfunc", "IndexError: sap3[i]"}
    THEN <<>> ELSE binned

\* the loop of the call and the loop as a function agree
BinLoopAgrees == BinEnded => RunEmitted = Emitted(srt, inp.nbins, inp.binmethod)

\* C12: for the same phase-sorted input (phases in [0,1)) and the same nbins,
\* the bin centres and the per-channel bin uncertainties that a call emits are
\* those that every reduction method (mean, median, sigclip) emits: each
\* uncertainty is the mean error of the whole buffer of its bin, and only the
\* bin values depend on the method.
C12_CentresAndErrorsWhateverMethod ==
    (BinEnded /\ PhasesInUnit) =>
        \A m \in Methods :
            LET e == Emitted(srt, inp.nbins, m)
            IN  /\ Phase4(RunEmitted, inp.nbins) = Phase4(e, inp.nbins)
                /\ Len(RunEmitted) = Len(e)
                /\ \A k \in 1..Len(e) :
                      MeanErrArgs(srt, RunEmitted[k]) = MeanErrArgs(srt, e[k])

-----------------------------------------------------------------------------
\* every sorted phase is a number of [0, 1)
SortedInUnit ==
    \A k \in 1..NSorted : srt.phase3[k] # NaN /\ 0 <= srt.phase3[k] /\ srt.phase3[k] < One

\* C13: for sorted phases in [0,1), the bins emitted so far are in strictly
\* increasing bin-index order, every index k satisfies 0 <= k < nbins, the
\* centre of a bin is (k + 0.5)/nbins and lies in [0,1), and at most nbins
\* bins are emitted.
C13_BinsIncreasingCentresInUnit ==
    (inp.bindata /\ AfterSort /\ SortedInUnit) =>
        /\ \A a, b \in 1..Len(binned) : a < b => binned[a].nb < binned[b].nb
        /\ \A k \in 1..Len(binned) :
              /\ 0 <= binned[k].nb /\ binned[k].nb < inp.nbins
              /\ 2 * inp.nbins * Phase4(binned, inp.nbins)[k] = (2 * binned[k].nb + 1) * One
              /\ 0 <= Phase4(binned, inp.nbins)[k] /\ Phase4(binned, inp.nbins)[k] < One
        /\ Len(binned) <= inp.nbins

\* a finished binning that emitted every bin of nbins >= 2, the last one included
C13_Witness ==
    /\ BinningDone /\ SortedInUnit
    /\ inp.nbins >= 2
    /\ Len(binned) = inp.nbins
    /\ binned[Len(binned)].nb = inp.nbins - 1

-----------------------------------------------------------------------------
\* C14: in a call with a valid period, whenever the binning loop is about to
\* examine position i of rng, the lower edge nb/nbins of the current bin does
\* not exceed the phase examined, nb <= nbins - 1 while the position is that
\* of a real sample, and the wrap point at the last position takes the flush
\* branch; no channel array is ever read past its end.
C14_TraversalStaysInBounds ==
    (inp.bindata /\ inp.period > 0) =>
        /\ pc = "bin" =>
              /\ Rng(srt)[i] # NaN
              /\ nb * One <= Rng(srt)[i] * inp.nbins
              /\ i <= NSorted => nb <= inp.nbins - 1
              /\ i = NSorted + 1 => OutsideBin(Rng(srt)[i], nb, inp.nbins)
        /\ err # "IndexError: sap3[i]"

-----------------------------------------------------------------------------
\* C15: in a call with a valid period that wrote a binned table, every value
\* of the table is the reduction (by the binning method) of the filtered
\* samples of its bin, which were divided by cadenom once: the table is on the
\* scale of the filtered per-sample series, whatever cadenom is.
C15_BinnedTableNormalisedOnce ==
    (outfile.written /\ inp.bindata /\ inp.period > 0) =>
        /\ Len(outfile.folded) = Len(binned)
        /\ \A k \in 1..Len(outfile.folded) :
              /\ outfile.folded[k].SAP_FLUX = BinValue(srt, binned[k], "sap3", inp.binmethod)
              /\ outfile.folded[k].PDC_FLUX = BinValue(srt, binned[k], "pdc3", inp.binmethod)
              /\ outfile.folded[k].CBV_FLUX = BinValue(srt, binned[k], "cbv3", inp.binmethod)
              /\ outfile.folded[k].DET_FLUX = BinValue(srt, binned[k], "det3", inp.binmethod)

====
